---- MODULE Spec2Model ----
(***************************************************************************)
(* Model of dfltinaccel.c: the FPGA offload dispatcher of gzip             *)
(* (deflate_inaccel, fpga_task, inaccel_error, crc_compute,                *)
(* calcMaxTempSize).  The collaborators that live outside this file (the   *)
(* software deflate, flush_outbuf, updcrc/setcrc, the accelerator runtime  *)
(* and the POSIX calls) are modelled by their contracts.                   *)
(***************************************************************************)
EXTENDS Integers, Sequences, FiniteSets, TLC

(* ------------------------------ bounds --------------------------------- *)
\* Input files have every length 0..MaxLen, plus the scenario length (one
\* file of that length, read from offset 0).
MaxLen == 36
\* The descriptor may already stand at offset 0..MaxPos when the call starts
\* (standard input redirected from a file that was partly consumed), while
\* ifile_size is the size of the whole file.
MaxPos == 1
\* Number of distinct input contents per length.
MaxSeed == 1
\* calcMaxTempSize is probed on SizeProbe lengths around each of its edges.
SizeProbe == 20
\* errno values an operation can leave behind are 1..MaxErr.
MaxErr == 1
\* Width of size_t in bits (scaled down so that its arithmetic is checkable).
SizeBits == 20

(* ----------------------- constants of the source ----------------------- *)
KVEC == 16
KMINBUFFERSIZE == 16384
\* Variant: the threshold taken as KVEC itself.
MINIMUM_FILESIZE_kvec == KVEC
MINIMUM_FILESIZE == KVEC + 1
\* Variant: the chunk taken to be KVEC bytes (32 nibbles).
num_nibbles_parallel_kvec == 2 * KVEC
\* const int num_nibbles_parallel = 64, local to crc_compute
num_nibbles_parallel == 64
\* Variant: the last slot is left unbound.
NumArgs_short == 14 - 1
\* Number of positional arguments bound by fpga_task (slots 0..13).
NumArgs == 14

\* Input length of the spec's scenario "threshold + 1000 bytes".
ScenarioLen == MINIMUM_FILESIZE + 1000

Bufs == {"in_buffer", "out_buffer", "gzip_info", "crc"}

(* ------------------------------ CRC-32 --------------------------------- *)
\* A 32-bit word is the set of the indices of its one bits (0 = least
\* significant), so that xor and shift are exact.
Word == 0..31
Ones == Word
\* 0xEDB88320, the reflected CRC-32 polynomial behind gzip's crc_32_tab
CrcPoly == {5, 8, 9, 15, 19, 20, 21, 23, 24, 26, 27, 29, 30, 31}

Xor(a, b) == {i \in Word : (i \in a) # (i \in b)}
Shr(a) == {i \in 0..30 : (i + 1) \in a}
ByteBits(b) == {i \in 0..7 : ((b \div (2 ^ i)) % 2) = 1}

RECURSIVE CrcShift(_, _)
CrcShift(c, k) ==
  IF k = 0 THEN c
  ELSE CrcShift(IF 0 \in c THEN Xor(Shr(c), CrcPoly) ELSE Shr(c), k - 1)

\* crc_32_tab[n]: the register reached from n by eight shift steps
crc_32_tab == [n \in 0..255 |-> CrcShift(ByteBits(n), 8)]

\* (c ^ byte) & 0xff, as a table index
LowByteXor(c, b) ==
  LET Bit(i) == IF (i \in c) # (((b \div (2 ^ i)) % 2) = 1) THEN 2 ^ i ELSE 0
  IN Bit(0) + Bit(1) + Bit(2) + Bit(3) + Bit(4) + Bit(5) + Bit(6) + Bit(7)

\* c = crc_32_tab[(c ^ byte) & 0xff] ^ (c >> 8)
CrcByte(c, b) == Xor(crc_32_tab[LowByteXor(c, b)], {i \in 0..23 : (i + 8) \in c})

\* The register after pumping s[lo..hi] through it (halving keeps the
\* evaluation depth logarithmic in the length).
RECURSIVE CrcRange(_, _, _, _)
CrcRange(c, s, lo, hi) ==
  IF lo > hi \/ c \notin SUBSET Word THEN c
  ELSE IF lo = hi THEN CrcByte(c, s[lo])
  ELSE LET mid == (lo + hi) \div 2
       IN CrcRange(CrcRange(c, s, lo, mid), s, mid + 1, hi)

\* updcrc(s, n): the static register crc is advanced over n bytes of s
updcrc(reg, s) == CrcRange(reg, s, 1, Len(s))
\* setcrc(c): crc = c ^ 0xffffffff
setcrc(c) == Xor(c, Ones)
\* getcrc(): crc ^ 0xffffffff
getcrc(reg) == Xor(reg, Ones)
\* The CRC-32 of a byte string, as the software path reports it.
Crc32(s) == getcrc(updcrc(Ones, s))

(* --------------------------- pure helpers ------------------------------ *)
\* size_t tmp_size = in_size + 16 * KVEC; floor at KMINBUFFERSIZE
calcMaxTempSize(in_size) ==
  LET tmp_size == (in_size + 16 * KVEC) % (2 ^ SizeBits)
  IN IF tmp_size < KMINBUFFERSIZE THEN KMINBUFFERSIZE ELSE tmp_size

\* Offset and length of the bytes crc_compute hands to updcrc.
num_sections(buffer_sz) == buffer_sz \div (num_nibbles_parallel \div 2)
remaining_data(buffer_sz) == num_sections(buffer_sz) * (num_nibbles_parallel \div 2)
remaining_bytes(buffer_sz) == buffer_sz % (num_nibbles_parallel \div 2)

\* Variant: the accelerator value stored into the register as it is.
crc_compute_rawSeed(in, buffer_sz, previous_crc) ==
  updcrc(previous_crc,
         SubSeq(in, remaining_data(buffer_sz) + 1,
                    remaining_data(buffer_sz) + remaining_bytes(buffer_sz)))

\* setcrc(previous_crc); updcrc(remaining_data, remaining_bytes);
crc_compute(in, buffer_sz, previous_crc) ==
  updcrc(setcrc(previous_crc),
         SubSeq(in, remaining_data(buffer_sz) + 1,
                    remaining_data(buffer_sz) + remaining_bytes(buffer_sz)))

(* ------------------------- environment models -------------------------- *)
\* Contents of an input file: byte i (1-based) of the file with a given seed.
FileByte(seed, i) == (seed * 89 + i * 37 + ((i * i) % 11)) % 256
FileOf(seed, n) == [i \in 1..n |-> FileByte(seed, i)]

\* The gzip member header pending in outbuf when deflate is entered.
Header == <<31, 139, 8, 0, 0, 0, 0, 0, 0, 3>>

\* The compressed form of a byte string (one stored block: a tag and the
\* bytes); the same for the software path and for the accelerator.
Compress(x) == <<Len(x) % 256>> \o x

\* What the accelerator reports for an input of n bytes at 'in': the
\* compressed bytes, their count, and the CRC-32 of the chunks it consumed
\* whole (32 bytes per chunk).
AccelResult(in, n) ==
  LET data == SubSeq(in, 1, n)
  IN [out |-> Compress(data),
      compression_sz |-> Len(Compress(data)),
      crc |-> Crc32(SubSeq(data, 1, (n \div 32) * 32))]

\* The software deflate() of gzip applied to a session state s: reads the
\* descriptor from its position to end of file, checksums and counts what it
\* read, writes the pending bytes and the compressed bytes.
SoftDeflate(s) ==
  LET x == SubSeq(s.ifile, s.fdpos + 1, Len(s.ifile))
  IN [ifile |-> s.ifile,
      fdpos |-> Len(s.ifile),
      crc |-> updcrc(s.crc, x),
      bytes_in |-> s.bytes_in + Len(x),
      bytes_out |-> s.bytes_out + Len(s.outbuf) + Len(Compress(x)),
      outbuf |-> <<>>,
      dest |-> s.dest \o s.outbuf \o Compress(x),
      ret |-> Len(Compress(x))]

ErrCodes == 1..MaxErr
Lengths == (0..MaxLen) \cup {ScenarioLen}
\* Values an uninitialised byte of a staging buffer may hold.
Garbage == {0, 255}
\* read(fd, buf, count) with m bytes left between the position and the end
\* of the file (m < count when the descriptor did not start at offset 0):
\* an error, or the m bytes.
ReadResults(m) == {-1, m}
\* write(fd, buf, count): an error, everything, or a short count.
WriteResults(count) == {-1, count, count \div 2}

(* ------------------------------- state --------------------------------- *)
VARIABLES
  ifile,        \* bytes of the input file behind ifd
  ifile_size,   \* gzip global: size of the input file
  fdpos,        \* file position of ifd
  outbuf,       \* gzip global output buffer (outbuf[0..outcnt-1])
  dest,         \* bytes persisted to ofd
  crc,          \* gzip's running CRC register (util.c)
  bytes_in,     \* gzip global
  bytes_out,    \* gzip global
  errno,
  diag,         \* last message printed on stderr
  pc,           \* position in deflate_inaccel / fpga_task
  pos,          \* local off_t pos
  out_size,     \* local size_t out_size
  buf,          \* state of each of the four staging pointers
  nfree,        \* number of inaccel_free calls per buffer
  in_buffer,    \* contents of in_buffer
  out_buffer,   \* contents of out_buffer
  gzip_info,    \* gzip_info[0]
  crc0,         \* crc[0]
  rb, wb, len,  \* locals of deflate_inaccel
  ret,          \* value returned by deflate_inaccel
  request,      \* state of the request handle in fpga_task
  response,     \* state of the response handle in fpga_task
  nrel,         \* number of release calls per handle
  slot,         \* next argument slot to bind
  args,         \* arguments bound so far, in order
  nsubmit,      \* calls of inaccel_submit
  job,          \* state of the accelerator job
  via,          \* why the software path was taken ("none" while offloading)
  nfallback,    \* calls of deflate()
  pos0,         \* descriptor position when deflate_inaccel was called
  failerr,      \* errno as the call that made fpga_task fail set it
  uaf,          \* a staging buffer was accessed after its release
  crc_tail,     \* offset and length last passed to updcrc by crc_compute
  trace         \* external calls made so far, in order

session == <<ifile, ifile_size, fdpos, outbuf, dest, crc, bytes_in, bytes_out, errno, diag>>
locals == <<pc, pos, out_size, rb, wb, len, ret>>
staging == <<buf, nfree, in_buffer, out_buffer, gzip_info, crc0>>
driver == <<request, response, nrel, slot, args, nsubmit, job>>
ghost == <<via, nfallback, pos0, failerr, uaf, crc_tail, trace>>
vars == <<session, locals, staging, driver, ghost>>

Init ==
  /\ \E n \in Lengths, seed \in 1..MaxSeed, p \in 0..MaxPos :
        /\ p <= n
        /\ n = ScenarioLen => (seed = 1 /\ p = 0)
        /\ ifile = FileOf(seed, n)
        /\ ifile_size = n
        /\ fdpos = p
        /\ pos0 = p
  /\ outbuf = Header
  /\ dest = <<>>
  /\ crc = Ones
  /\ bytes_in = 0
  /\ bytes_out = 0
  /\ errno = 0
  /\ diag = ""
  /\ pc = "start"
  /\ pos = 0
  /\ out_size = 0
  /\ buf = [b \in Bufs |-> "unset"]
  /\ nfree = [b \in Bufs |-> 0]
  /\ in_buffer = <<>>
  /\ out_buffer = <<>>
  /\ gzip_info = [compression_sz |-> 0, crc |-> {}]
  /\ crc0 = {}
  /\ rb = 0 /\ wb = 0 /\ len = 0 /\ ret = 0
  /\ request = "unset"
  /\ response = "unset"
  /\ nrel = [h \in {"request", "response"} |-> 0]
  /\ slot = 0
  /\ args = <<>>
  /\ nsubmit = 0
  /\ job = "none"
  /\ via = "none"
  /\ nfallback = 0
  /\ failerr = 0
  /\ uaf = FALSE
  /\ crc_tail = [off |-> 0, len |-> 0]
  /\ trace = <<>>

\* An access to staging buffers S: notes an access after release.
Touch(S) == uaf' = (uaf \/ \E b \in S : buf[b] = "freed")

(* --------------------------- deflate_inaccel --------------------------- *)
\* Variant: the header flush before the offload attempt is left out.
Gate_noFlush ==
  /\ pc = "start"
  /\ IF ifile_size < MINIMUM_FILESIZE
       THEN pc' = "fallback" /\ via' = "gate"
       ELSE pc' = "getpos" /\ via' = via
  /\ UNCHANGED <<session, pos, out_size, rb, wb, len, ret, staging, driver,
                 nfallback, pos0, failerr, uaf, crc_tail, trace>>

\* if (ifile_size < MINIMUM_FILESIZE) return deflate (pack_level);
Gate ==
  /\ pc = "start"
  /\ IF ifile_size < MINIMUM_FILESIZE
       THEN pc' = "fallback" /\ via' = "gate"
       ELSE pc' = "flush" /\ via' = via
  /\ UNCHANGED <<session, pos, out_size, rb, wb, len, ret, staging, driver,
                 nfallback, pos0, failerr, uaf, crc_tail, trace>>

\* flush_outbuf(): writes outbuf[0..outcnt-1] to ofd, or write_error()
FlushHeader ==
  /\ pc = "flush"
  /\ trace' = Append(trace, <<"flush_outbuf", "">>)
  /\ \/ /\ dest' = dest \o outbuf
        /\ bytes_out' = bytes_out + Len(outbuf)
        /\ outbuf' = <<>>
        /\ pc' = "getpos"
        /\ UNCHANGED <<errno, diag>>
     \/ /\ \E e \in ErrCodes : errno' = e
        /\ diag' = "write error"
        /\ pc' = "abort"
        /\ UNCHANGED <<dest, bytes_out, outbuf>>
  /\ UNCHANGED <<ifile, ifile_size, fdpos, crc, bytes_in, pos, out_size, rb, wb,
                 len, ret, staging, driver, via, nfallback, pos0, failerr, uaf, crc_tail>>

\* Variant: the result of lseek is not checked.
GetPos_ignoreError ==
  /\ pc = "getpos"
  /\ trace' = Append(trace, <<"lseek", "SEEK_CUR">>)
  /\ \/ /\ pos' = fdpos
        /\ pc' = "alloc"
        /\ UNCHANGED <<errno, diag>>
     \/ /\ pos' = -1
        /\ \E e \in ErrCodes : errno' = e
        /\ diag' = diag
        /\ pc' = "alloc"
  /\ UNCHANGED <<ifile, ifile_size, fdpos, outbuf, dest, crc, bytes_in, bytes_out,
                 out_size, rb, wb, len, ret, staging, driver, via, nfallback,
                 pos0, failerr, uaf, crc_tail>>

\* off_t pos = lseek(ifd, 0, SEEK_CUR); if (pos == -1) gzip_error (...)
GetPos ==
  /\ pc = "getpos"
  /\ trace' = Append(trace, <<"lseek", "SEEK_CUR">>)
  /\ \/ /\ pos' = fdpos
        /\ pc' = "alloc"
        /\ UNCHANGED <<errno, diag>>
     \/ /\ pos' = -1
        /\ \E e \in ErrCodes : errno' = e
        /\ diag' = "Cannot resolve input file descriptor position"
        /\ pc' = "abort"
  /\ UNCHANGED <<ifile, ifile_size, fdpos, outbuf, dest, crc, bytes_in, bytes_out,
                 out_size, rb, wb, len, ret, staging, driver, via, nfallback,
                 pos0, failerr, uaf, crc_tail>>

\* Variant: the null check joined with && (falls back only if all four failed).
AllocBuffers_allNull ==
  /\ pc = "alloc"
  /\ \E ok \in [Bufs -> BOOLEAN] :
       /\ buf' = [b \in Bufs |-> IF ok[b] THEN "live" ELSE "null"]
       /\ IF \E b \in Bufs : ok[b]
            THEN pc' = "read" /\ via' = via /\ diag' = diag
            ELSE /\ pc' = "fallback"
                 /\ via' = "alloc"
                 /\ diag' = "cannot allocate buffer(s) for FPGA"
  /\ out_size' = calcMaxTempSize(ifile_size)
  /\ trace' = trace \o << <<"inaccel_alloc", "in_buffer">>, <<"inaccel_alloc", "out_buffer">>,
                          <<"inaccel_alloc", "gzip_info">>, <<"inaccel_alloc", "crc">> >>
  /\ UNCHANGED <<ifile, ifile_size, fdpos, outbuf, dest, crc, bytes_in, bytes_out,
                 errno, pos, rb, wb, len, ret, nfree, in_buffer, out_buffer,
                 gzip_info, crc0, driver, nfallback, pos0, failerr, uaf, crc_tail>>

\* The four inaccel_alloc calls and the null check that follows them.
AllocBuffers ==
  /\ pc = "alloc"
  /\ \E ok \in [Bufs -> BOOLEAN] :
       /\ buf' = [b \in Bufs |-> IF ok[b] THEN "live" ELSE "null"]
       /\ IF \A b \in Bufs : ok[b]
            THEN pc' = "read" /\ via' = via /\ diag' = diag
            ELSE /\ pc' = "fallback"
                 /\ via' = "alloc"
                 /\ diag' = "cannot allocate buffer(s) for FPGA"
  /\ out_size' = calcMaxTempSize(ifile_size)
  /\ trace' = trace \o << <<"inaccel_alloc", "in_buffer">>, <<"inaccel_alloc", "out_buffer">>,
                          <<"inaccel_alloc", "gzip_info">>, <<"inaccel_alloc", "crc">> >>
  /\ UNCHANGED <<ifile, ifile_size, fdpos, outbuf, dest, crc, bytes_in, bytes_out,
                 errno, pos, rb, wb, len, ret, nfree, in_buffer, out_buffer,
                 gzip_info, crc0, driver, nfallback, pos0, failerr, uaf, crc_tail>>

\* Variant: bytes_in advanced as soon as the input is read.
ReadInput_count ==
  /\ pc = "read"
  /\ trace' = Append(trace, <<"read", "in_buffer">>)
  /\ Touch({"in_buffer"})
  /\ LET m == IF Len(ifile) - fdpos < ifile_size THEN Len(ifile) - fdpos ELSE ifile_size
     IN \E r \in ReadResults(m) :
          /\ rb' = r
          /\ IF r = -1
               THEN /\ \E e \in ErrCodes : errno' = e
                    /\ pc' = "read_failed"
                    /\ UNCHANGED <<fdpos, in_buffer, bytes_in>>
               ELSE /\ fdpos' = fdpos + r
                    /\ \E g \in Garbage :
                         in_buffer' = SubSeq(ifile, fdpos + 1, fdpos + r)
                                        \o [i \in 1..(ifile_size - r) |-> g]
                    /\ pc' = "request_create"
                    /\ bytes_in' = bytes_in + r
                    /\ UNCHANGED errno
  /\ UNCHANGED <<ifile, ifile_size, outbuf, dest, crc, bytes_out, diag,
                 pos, out_size, wb, len, ret, buf, nfree, out_buffer, gzip_info,
                 crc0, driver, via, nfallback, pos0, failerr, crc_tail>>

\* off_t rb = read(ifd, in_buffer, ifile_size);
ReadInput ==
  /\ pc = "read"
  /\ trace' = Append(trace, <<"read", "in_buffer">>)
  /\ Touch({"in_buffer"})
  /\ LET m == IF Len(ifile) - fdpos < ifile_size THEN Len(ifile) - fdpos ELSE ifile_size
     IN \E r \in ReadResults(m) :
          /\ rb' = r
          /\ IF r = -1
               THEN /\ \E e \in ErrCodes : errno' = e
                    /\ pc' = "read_failed"
                    /\ UNCHANGED <<fdpos, in_buffer>>
               ELSE /\ fdpos' = fdpos + r
                    /\ \E g \in Garbage :
                         in_buffer' = SubSeq(ifile, fdpos + 1, fdpos + r)
                                        \o [i \in 1..(ifile_size - r) |-> g]
                    /\ pc' = "request_create"
                    /\ UNCHANGED errno
  /\ UNCHANGED <<ifile, ifile_size, outbuf, dest, crc, bytes_in, bytes_out, diag,
                 pos, out_size, wb, len, ret, buf, nfree, out_buffer, gzip_info,
                 crc0, driver, via, nfallback, pos0, failerr, crc_tail>>

\* Variant: inaccel_free(in_buffer) forgotten.
FreeAll_skipIn ==
  /\ buf' = [b \in Bufs |-> IF b = "in_buffer" THEN buf[b] ELSE "freed"]
  /\ nfree' = [b \in Bufs |-> IF b = "in_buffer" THEN nfree[b] ELSE nfree[b] + 1]
  /\ trace' = trace \o << <<"inaccel_free", "crc">>, <<"inaccel_free", "gzip_info">>,
                          <<"inaccel_free", "out_buffer">> >>

\* inaccel_free(crc); inaccel_free(gzip_info); inaccel_free(out_buffer);
\* inaccel_free(in_buffer);
FreeAll ==
  /\ buf' = [b \in Bufs |-> "freed"]
  /\ nfree' = [b \in Bufs |-> nfree[b] + 1]
  /\ trace' = trace \o << <<"inaccel_free", "crc">>, <<"inaccel_free", "gzip_info">>,
                          <<"inaccel_free", "out_buffer">>, <<"inaccel_free", "in_buffer">> >>

\* if (rb == -1) { free the four buffers; read_error(); }
ReadFailed ==
  /\ pc = "read_failed"
  /\ FreeAll
  /\ diag' = "read error"
  /\ pc' = "abort"
  /\ UNCHANGED <<ifile, ifile_size, fdpos, outbuf, dest, crc, bytes_in, bytes_out,
                 errno, pos, out_size, rb, wb, len, ret, in_buffer, out_buffer,
                 gzip_info, crc0, driver, via, nfallback, pos0, failerr, uaf, crc_tail>>

\* if (ret == !OK) { free the four buffers; ...
FreeOnJobFailure ==
  /\ pc = "job_failed"
  /\ FreeAll
  /\ pc' = "restore"
  /\ UNCHANGED <<session, pos, out_size, rb, wb, len, ret, in_buffer, out_buffer,
                 gzip_info, crc0, driver, via, nfallback, pos0, failerr, uaf, crc_tail>>

\* Variant: the descriptor is left where the read put it.
RestorePos_noSeek ==
  /\ pc = "restore"
  /\ trace' = Append(trace, <<"lseek", "SEEK_SET">>)
  /\ \/ /\ fdpos' = fdpos
        /\ pos' = pos
        /\ pc' = "fallback"
        /\ via' = "job"
        /\ UNCHANGED <<errno, diag>>
     \/ /\ pos' = -1
        /\ \E e \in ErrCodes : errno' = e
        /\ diag' = "Cannot set input file descriptor position"
        /\ pc' = "abort"
        /\ UNCHANGED <<fdpos, via>>
  /\ UNCHANGED <<ifile, ifile_size, outbuf, dest, crc, bytes_in, bytes_out,
                 out_size, rb, wb, len, ret, staging, driver, nfallback, pos0, failerr,
                 uaf, crc_tail>>

\* Variant: the descriptor is set to offset 0 instead of pos.
RestorePos_rewind ==
  /\ pc = "restore"
  /\ trace' = Append(trace, <<"lseek", "SEEK_SET">>)
  /\ \/ /\ fdpos' = 0
        /\ pos' = 0
        /\ pc' = "fallback"
        /\ via' = "job"
        /\ UNCHANGED <<errno, diag>>
     \/ /\ pos' = -1
        /\ \E e \in ErrCodes : errno' = e
        /\ diag' = "Cannot set input file descriptor position"
        /\ pc' = "abort"
        /\ UNCHANGED <<fdpos, via>>
  /\ UNCHANGED <<ifile, ifile_size, outbuf, dest, crc, bytes_in, bytes_out,
                 out_size, rb, wb, len, ret, staging, driver, nfallback, pos0, failerr,
                 uaf, crc_tail>>

\* Variant: the result of lseek is not checked.
RestorePos_ignoreError ==
  /\ pc = "restore"
  /\ trace' = Append(trace, <<"lseek", "SEEK_SET">>)
  /\ \/ /\ fdpos' = pos
        /\ pos' = pos
        /\ pc' = "fallback"
        /\ via' = "job"
        /\ UNCHANGED <<errno, diag>>
     \/ /\ pos' = -1
        /\ \E e \in ErrCodes : errno' = e
        /\ pc' = "fallback"
        /\ via' = "job"
        /\ UNCHANGED <<fdpos, diag>>
  /\ UNCHANGED <<ifile, ifile_size, outbuf, dest, crc, bytes_in, bytes_out,
                 out_size, rb, wb, len, ret, staging, driver, nfallback, pos0, failerr,
                 uaf, crc_tail>>

\* pos = lseek(ifd, pos, SEEK_SET); if (pos == -1) gzip_error (...)
RestorePos ==
  /\ pc = "restore"
  /\ trace' = Append(trace, <<"lseek", "SEEK_SET">>)
  /\ \/ /\ fdpos' = pos
        /\ pos' = pos
        /\ pc' = "fallback"
        /\ via' = "job"
        /\ UNCHANGED <<errno, diag>>
     \/ /\ pos' = -1
        /\ \E e \in ErrCodes : errno' = e
        /\ diag' = "Cannot set input file descriptor position"
        /\ pc' = "abort"
        /\ UNCHANGED <<fdpos, via>>
  /\ UNCHANGED <<ifile, ifile_size, outbuf, dest, crc, bytes_in, bytes_out,
                 out_size, rb, wb, len, ret, staging, driver, nfallback, pos0, failerr,
                 uaf, crc_tail>>

\* return deflate (pack_level);
Fallback ==
  /\ pc = "fallback"
  /\ trace' = Append(trace, <<"deflate", "">>)
  /\ nfallback' = nfallback + 1
  /\ \E r \in {SoftDeflate([ifile |-> ifile, fdpos |-> fdpos, crc |-> crc,
                             bytes_in |-> bytes_in, bytes_out |-> bytes_out,
                             outbuf |-> outbuf, dest |-> dest])} :
        /\ fdpos' = r.fdpos
        /\ crc' = r.crc
        /\ bytes_in' = r.bytes_in
        /\ bytes_out' = r.bytes_out
        /\ outbuf' = r.outbuf
        /\ dest' = r.dest
        /\ ret' = r.ret
  /\ pc' = "done"
  /\ UNCHANGED <<ifile, ifile_size, errno, diag, pos, out_size, rb, wb, len,
                 staging, driver, via, pos0, failerr, uaf, crc_tail>>

(* ------------------------------ fpga_task ------------------------------ *)
\* The job signature as fpga_task binds it: slot |-> kind, size in bytes of
\* the bound object, the variable bound, and its value (scalars only).
ArgSpec(k) ==
  CASE k = 0  -> [slot |-> 0,  kind |-> "scalar", size |-> 8, src |-> "in_size", val |-> ifile_size]
    [] k = 1  -> [slot |-> 1,  kind |-> "array",  size |-> ifile_size, src |-> "in_buffer", val |-> 0]
    [] k = 2  -> [slot |-> 2,  kind |-> "scalar", size |-> 8, src |-> "in_size", val |-> ifile_size]
    [] k = 3  -> [slot |-> 3,  kind |-> "scalar", size |-> 8, src |-> "nil", val |-> 0]
    [] k = 4  -> [slot |-> 4,  kind |-> "array",  size |-> out_size, src |-> "out_buffer", val |-> 0]
    [] k = 5  -> [slot |-> 5,  kind |-> "scalar", size |-> 8, src |-> "out_size", val |-> out_size]
    [] k = 6  -> [slot |-> 6,  kind |-> "scalar", size |-> 8, src |-> "nil", val |-> 0]
    [] k = 7  -> [slot |-> 7,  kind |-> "array",  size |-> 16, src |-> "gzip_info", val |-> 0]
    [] k = 8  -> [slot |-> 8,  kind |-> "scalar", size |-> 8, src |-> "gzip_info_size", val |-> 16]
    [] k = 9  -> [slot |-> 9,  kind |-> "scalar", size |-> 8, src |-> "nil", val |-> 0]
    [] k = 10 -> [slot |-> 10, kind |-> "array",  size |-> 4, src |-> "crc", val |-> 0]
    [] k = 11 -> [slot |-> 11, kind |-> "scalar", size |-> 8, src |-> "crc_size", val |-> 4]
    [] k = 12 -> [slot |-> 12, kind |-> "scalar", size |-> 8, src |-> "nil", val |-> 0]
    [] k = 13 -> [slot |-> 13, kind |-> "scalar", size |-> 4, src |-> "last_block", val |-> 1]

\* Variant: the response argument is never released.
inaccel_error_noResponse(rq, rs, e) ==
  /\ request' = IF rq THEN "released" ELSE request
  /\ response' = response
  /\ nrel' = [h \in {"request", "response"} |->
                nrel[h] + (IF h = "request" /\ rq THEN 1 ELSE 0)]
  /\ trace' = trace \o (IF rq THEN << <<"inaccel_request_release", "inaccel_error">> >> ELSE <<>>)
  /\ LET errsv == e
     IN \E clobbered \in ErrCodes \cup {0} : errno' = errsv

\* Variant: errno is not saved, the release calls' value stays in it.
inaccel_error_noSave(rq, rs, e) ==
  /\ request' = IF rq THEN "released" ELSE request
  /\ response' = IF rs THEN "released" ELSE response
  /\ nrel' = [h \in {"request", "response"} |->
                nrel[h] + (IF (h = "request" /\ rq) \/ (h = "response" /\ rs) THEN 1 ELSE 0)]
  /\ trace' = trace \o (IF rq THEN << <<"inaccel_request_release", "inaccel_error">> >> ELSE <<>>)
                    \o (IF rs THEN << <<"inaccel_response_release", "inaccel_error">> >> ELSE <<>>)
  /\ \E clobbered \in ErrCodes \cup {0} : errno' = clobbered

\* inaccel_error(request, response): releases the handles that are passed
\* (rq, rs: the argument is not NULL) and puts back the errno it found (e),
\* whatever the release calls left in it.
inaccel_error(rq, rs, e) ==
  /\ request' = IF rq THEN "released" ELSE request
  /\ response' = IF rs THEN "released" ELSE response
  /\ nrel' = [h \in {"request", "response"} |->
                nrel[h] + (IF (h = "request" /\ rq) \/ (h = "response" /\ rs) THEN 1 ELSE 0)]
  /\ trace' = trace \o (IF rq THEN << <<"inaccel_request_release", "inaccel_error">> >> ELSE <<>>)
                    \o (IF rs THEN << <<"inaccel_response_release", "inaccel_error">> >> ELSE <<>>)
  /\ LET errsv == e
     IN \E clobbered \in ErrCodes \cup {0} : errno' = errsv

\* inaccel_request request = inaccel_request_create(...); if (!request) return !OK;
RequestCreate ==
  /\ pc = "request_create"
  /\ trace' = Append(trace, <<"inaccel_request_create", "">>)
  /\ \/ /\ request' = "live"
        /\ slot' = 0
        /\ pc' = "bind"
        /\ UNCHANGED <<errno, failerr>>
     \/ /\ request' = "null"
        /\ \E e \in ErrCodes : errno' = e /\ failerr' = e
        /\ pc' = "job_failed"
        /\ UNCHANGED slot
  /\ UNCHANGED <<ifile, ifile_size, fdpos, outbuf, dest, crc, bytes_in, bytes_out,
                 diag, pos, out_size, rb, wb, len, ret, staging, response, nrel,
                 args, nsubmit, job, via, nfallback, pos0, uaf, crc_tail>>

\* if (inaccel_request_arg_scalar/array(request, size, ptr, slot))
\*   { inaccel_error(request, NULL); return !OK; }
BindArg ==
  /\ pc = "bind"
  /\ slot < NumArgs
  /\ IF ArgSpec(slot).kind = "array" THEN Touch({ArgSpec(slot).src}) ELSE UNCHANGED uaf
  /\ \/ /\ args' = Append(args, ArgSpec(slot))
        /\ slot' = slot + 1
        /\ pc' = IF slot + 1 = NumArgs THEN "response_create" ELSE "bind"
        /\ trace' = Append(trace, <<"inaccel_request_arg", ArgSpec(slot).kind>>)
        /\ UNCHANGED <<errno, failerr, request, response, nrel>>
     \/ /\ \E e \in ErrCodes :
             inaccel_error(TRUE, FALSE, e) /\ failerr' = e
        /\ pc' = "job_failed"
        /\ UNCHANGED <<args, slot>>
  /\ UNCHANGED <<ifile, ifile_size, fdpos, outbuf, dest, crc, bytes_in, bytes_out,
                 diag, pos, out_size, rb, wb, len, ret, staging, nsubmit, job,
                 via, nfallback, pos0, crc_tail>>

\* inaccel_response response = inaccel_response_create();
\* if (!response) { inaccel_error(request, NULL); return !OK; }
ResponseCreate ==
  /\ pc = "response_create"
  /\ \/ /\ response' = "live"
        /\ pc' = "submit"
        /\ trace' = Append(trace, <<"inaccel_response_create", "">>)
        /\ UNCHANGED <<errno, failerr, request, nrel>>
     \/ /\ \E e \in ErrCodes : inaccel_error(TRUE, FALSE, e) /\ failerr' = e
        /\ pc' = "job_failed"
  /\ UNCHANGED <<ifile, ifile_size, fdpos, outbuf, dest, crc, bytes_in, bytes_out,
                 diag, pos, out_size, rb, wb, len, ret, staging, slot, args,
                 nsubmit, job, via, nfallback, pos0, uaf, crc_tail>>

\* Variant: a failed submit is tried again.
Submit_retry ==
  /\ pc = "submit"
  /\ nsubmit' = nsubmit + 1
  /\ \/ /\ job' = "pending"
        /\ pc' = "request_release"
        /\ trace' = Append(trace, <<"inaccel_submit", "">>)
        /\ UNCHANGED <<errno, failerr, request, response, nrel>>
     \/ /\ \E e \in ErrCodes : errno' = e /\ failerr' = e
        /\ job' = job
        /\ pc' = "submit"
        /\ UNCHANGED <<request, response, nrel, trace>>
  /\ UNCHANGED <<ifile, ifile_size, fdpos, outbuf, dest, crc, bytes_in, bytes_out,
                 diag, pos, out_size, rb, wb, len, ret, staging, slot, args,
                 via, nfallback, pos0, uaf, crc_tail>>

\* if (inaccel_submit(request, response)) { inaccel_error(request, response); return !OK; }
Submit ==
  /\ pc = "submit"
  /\ nsubmit' = nsubmit + 1
  /\ \/ /\ job' = "pending"
        /\ pc' = "request_release"
        /\ trace' = Append(trace, <<"inaccel_submit", "">>)
        /\ UNCHANGED <<errno, failerr, request, response, nrel>>
     \/ /\ \E e \in ErrCodes : inaccel_error(TRUE, TRUE, e) /\ failerr' = e
        /\ job' = job
        /\ pc' = "job_failed"
  /\ UNCHANGED <<ifile, ifile_size, fdpos, outbuf, dest, crc, bytes_in, bytes_out,
                 diag, pos, out_size, rb, wb, len, ret, staging, slot, args,
                 via, nfallback, pos0, uaf, crc_tail>>

\* inaccel_request_release(request);
RequestRelease ==
  /\ pc = "request_release"
  /\ request' = "released"
  /\ nrel' = [nrel EXCEPT !["request"] = @ + 1]
  /\ trace' = Append(trace, <<"inaccel_request_release", "">>)
  /\ \E e \in ErrCodes \cup {errno} : errno' = e
  /\ pc' = "wait"
  /\ UNCHANGED <<ifile, ifile_size, fdpos, outbuf, dest, crc, bytes_in, bytes_out,
                 diag, pos, out_size, rb, wb, len, ret, staging, response, slot,
                 args, nsubmit, job, via, nfallback, pos0, failerr, uaf, crc_tail>>

\* if (inaccel_response_wait(response)) { inaccel_error(NULL, response); return !OK; }
\* On completion the accelerator has filled out_buffer, gzip_info and crc.
Wait ==
  /\ pc = "wait"
  /\ Touch(Bufs)
  /\ \/ /\ \E r \in {AccelResult(in_buffer, ifile_size)} :
              /\ out_buffer' = r.out
              /\ gzip_info' = [compression_sz |-> r.compression_sz, crc |-> r.crc]
              /\ crc0' = r.crc
        /\ job' = "completed"
        /\ pc' = "response_release"
        /\ trace' = Append(trace, <<"inaccel_response_wait", "">>)
        /\ UNCHANGED <<errno, failerr, request, response, nrel>>
     \/ /\ \E e \in ErrCodes : inaccel_error(FALSE, TRUE, e) /\ failerr' = e
        /\ job' = "failed"
        /\ pc' = "job_failed"
        /\ UNCHANGED <<out_buffer, gzip_info, crc0>>
  /\ UNCHANGED <<ifile, ifile_size, fdpos, outbuf, dest, crc, bytes_in, bytes_out,
                 diag, pos, out_size, rb, wb, len, ret, buf, nfree, in_buffer,
                 slot, args, nsubmit, via, nfallback, pos0, crc_tail>>

\* inaccel_response_release(response); return OK;
ResponseRelease ==
  /\ pc = "response_release"
  /\ response' = "released"
  /\ nrel' = [nrel EXCEPT !["response"] = @ + 1]
  /\ trace' = Append(trace, <<"inaccel_response_release", "">>)
  /\ \E e \in ErrCodes \cup {errno} : errno' = e
  /\ pc' = "job_ok"
  /\ UNCHANGED <<ifile, ifile_size, fdpos, outbuf, dest, crc, bytes_in, bytes_out,
                 diag, pos, out_size, rb, wb, len, ret, staging, request, slot,
                 args, nsubmit, job, via, nfallback, pos0, failerr, uaf, crc_tail>>

(* ------------------- deflate_inaccel, after a good job ------------------ *)
\* size_t len = gzip_info[0].compression_sz;
\* off_t wb = write(ofd, out_buffer, gzip_info[0].compression_sz);
WriteOutput ==
  /\ pc = "job_ok"
  /\ Touch({"gzip_info", "out_buffer"})
  /\ len' = gzip_info.compression_sz
  /\ trace' = Append(trace, <<"write", "out_buffer">>)
  /\ \E w \in WriteResults(gzip_info.compression_sz) :
       /\ wb' = w
       /\ IF w = -1
            THEN (\E e \in ErrCodes : errno' = e) /\ dest' = dest
            ELSE errno' = errno /\ dest' = dest \o SubSeq(out_buffer, 1, w)
  /\ pc' = "crc"
  /\ UNCHANGED <<ifile, ifile_size, fdpos, outbuf, crc, bytes_in, bytes_out, diag,
                 pos, out_size, rb, ret, staging, driver, via, nfallback, pos0, failerr,
                 crc_tail>>

\* crc_compute((uch *) in_buffer, ifile_size, crc[0]);
CrcCompute ==
  /\ pc = "crc"
  /\ Touch({"in_buffer", "crc"})
  /\ crc' = crc_compute(in_buffer, ifile_size, crc0)
  /\ crc_tail' = [off |-> remaining_data(ifile_size), len |-> remaining_bytes(ifile_size)]
  /\ pc' = "free"
  /\ UNCHANGED <<ifile, ifile_size, fdpos, outbuf, dest, bytes_in, bytes_out,
                 errno, diag, pos, out_size, rb, wb, len, ret, staging, driver,
                 via, nfallback, pos0, failerr, trace>>

\* The four inaccel_free calls after crc_compute.
FreeOnSuccess ==
  /\ pc = "free"
  /\ FreeAll
  /\ pc' = "finish"
  /\ UNCHANGED <<session, pos, out_size, rb, wb, len, ret, in_buffer, out_buffer,
                 gzip_info, crc0, driver, via, nfallback, pos0, failerr, uaf, crc_tail>>

\* Variant: a failed write treated like a failed job (software path taken).
Finish_fallback ==
  /\ pc = "finish"
  /\ IF wb = -1
       THEN /\ pc' = "fallback"
            /\ UNCHANGED <<bytes_in, bytes_out, ret, diag>>
       ELSE /\ bytes_in' = bytes_in + rb
            /\ bytes_out' = bytes_out + wb
            /\ ret' = len
            /\ pc' = "done"
            /\ UNCHANGED diag
  /\ UNCHANGED <<ifile, ifile_size, fdpos, outbuf, dest, crc, errno, pos, out_size,
                 rb, wb, len, staging, driver, ghost>>

\* if (wb == -1) write_error(); bytes_in += rb; bytes_out += wb; return len;
Finish ==
  /\ pc = "finish"
  /\ IF wb = -1
       THEN /\ diag' = "write error"
            /\ pc' = "abort"
            /\ UNCHANGED <<bytes_in, bytes_out, ret>>
       ELSE /\ bytes_in' = bytes_in + rb
            /\ bytes_out' = bytes_out + wb
            /\ ret' = len
            /\ pc' = "done"
            /\ UNCHANGED diag
  /\ UNCHANGED <<ifile, ifile_size, fdpos, outbuf, dest, crc, errno, pos, out_size,
                 rb, wb, len, staging, driver, ghost>>

Next ==
  \/ Gate
  \/ FlushHeader
  \/ GetPos
  \/ AllocBuffers
  \/ ReadInput
  \/ ReadFailed
  \/ RequestCreate
  \/ BindArg
  \/ ResponseCreate
  \/ Submit
  \/ RequestRelease
  \/ Wait
  \/ ResponseRelease
  \/ FreeOnJobFailure
  \/ RestorePos
  \/ Fallback
  \/ WriteOutput
  \/ CrcCompute
  \/ FreeOnSuccess
  \/ Finish

Spec == Init /\ [][Next]_vars

(* ---------------- calcMaxTempSize on its own (SpecSize) ----------------- *)
\* Lengths a size_t can hold, taken around the edges of calcMaxTempSize:
\* the smallest, those around KMINBUFFERSIZE - 16 * KVEC, and the largest.
SizeInputs ==
  (0..SizeProbe)
    \cup ((KMINBUFFERSIZE - 16 * KVEC - SizeProbe)..(KMINBUFFERSIZE - 16 * KVEC + SizeProbe))
    \cup ((2 ^ SizeBits - 16 * KVEC - SizeProbe)..(2 ^ SizeBits - 1))

InitSize ==
  /\ ifile_size \in SizeInputs
  /\ pc = "size"
  /\ ifile = <<>> /\ fdpos = 0 /\ pos0 = 0
  /\ outbuf = Header /\ dest = <<>> /\ crc = Ones
  /\ bytes_in = 0 /\ bytes_out = 0 /\ errno = 0 /\ diag = ""
  /\ pos = 0 /\ out_size = 0
  /\ buf = [b \in Bufs |-> "unset"]
  /\ nfree = [b \in Bufs |-> 0]
  /\ in_buffer = <<>> /\ out_buffer = <<>>
  /\ gzip_info = [compression_sz |-> 0, crc |-> {}]
  /\ crc0 = {}
  /\ rb = 0 /\ wb = 0 /\ len = 0 /\ ret = 0
  /\ request = "unset" /\ response = "unset"
  /\ nrel = [h \in {"request", "response"} |-> 0]
  /\ slot = 0 /\ args = <<>> /\ nsubmit = 0 /\ job = "none"
  /\ via = "none" /\ nfallback = 0 /\ failerr = 0 /\ uaf = FALSE
  /\ crc_tail = [off |-> 0, len |-> 0]
  /\ trace = <<>>

\* size_t out_size = calcMaxTempSize(ifile_size);
CalcSize ==
  /\ pc = "size"
  /\ out_size' = calcMaxTempSize(ifile_size)
  /\ pc' = "sized"
  /\ UNCHANGED <<session, pos, rb, wb, len, ret, staging, driver, ghost>>

NextSize == CalcSize

SpecSize == InitSize /\ [][NextSize]_vars

(* ------------------------- auxiliary predicates ------------------------ *)
HasEvent(e) == \E i \in 1..Len(trace) : trace[i] = e
LastEvents(k) == SubSeq(trace, Len(trace) - k + 1, Len(trace))
FreeEvents == << <<"inaccel_free", "crc">>, <<"inaccel_free", "gzip_info">>,
                 <<"inaccel_free", "out_buffer">>, <<"inaccel_free", "in_buffer">> >>

\* The session as it stood when deflate_inaccel was called.
InitialSession == [ifile |-> ifile, fdpos |-> pos0, crc |-> Ones, bytes_in |-> 0,
                   bytes_out |-> 0, outbuf |-> Header, dest |-> <<>>]
\* What a direct call of the software deflate leaves behind and returns.
DirectFallback == SoftDeflate(InitialSession)
\* What the call under observation has left behind and returned.
Observed == [ifile |-> ifile, fdpos |-> fdpos, crc |-> crc, bytes_in |-> bytes_in,
             bytes_out |-> bytes_out, outbuf |-> outbuf, dest |-> dest, ret |-> ret]

(* ------------------------------- claims -------------------------------- *)
\* C1: for an input shorter than 17 bytes deflate_inaccel makes no offload
\* step (no flush by the dispatcher, no lseek, no allocation, no read into a
\* staging buffer, no request, no submit) and ends with exactly the result of
\* the software deflate; for a length of 17 or more the offload path is
\* entered (the next step is the header flush, which is then the first call
\* made, and the gate is not the reason for any fallback).
C1_GateThreshold ==
  /\ ifile_size < 17 =>
       /\ pc \in {"start", "fallback", "done"}
       /\ \A i \in 1..Len(trace) : trace[i] = <<"deflate", "">>
       /\ \A b \in Bufs : buf[b] = "unset" /\ nfree[b] = 0
       /\ request = "unset" /\ response = "unset" /\ nsubmit = 0 /\ args = <<>>
       /\ pc # "done" => fdpos = pos0 /\ dest = <<>> /\ outbuf = Header
       /\ pc # "start" => via = "gate"
       /\ pc = "done" => Observed = DirectFallback
  /\ (ifile_size >= 17 /\ pc # "start") =>
       /\ via # "gate"
       /\ pc = "flush" \/ (Len(trace) >= 1 /\ trace[1] = <<"flush_outbuf", "">>)

C1_Witness == pc = "done" /\ ifile_size = 16 /\ via = "gate" /\ nfallback = 1

\* C2: when fpga_task has failed, the software deflate starts only after the
\* four buffers were released and the descriptor was then seeked back: at
\* that moment every buffer is released, the last five calls are the four
\* inaccel_free and the lseek SEEK_SET, and the descriptor stands where it
\* stood when deflate_inaccel was called.
C2_FailedJobRestoresBeforeFallback ==
  /\ (pc = "fallback" /\ via = "job") =>
       /\ \A b \in Bufs : buf[b] = "freed"
       /\ LastEvents(5) = FreeEvents \o << <<"lseek", "SEEK_SET">> >>
       /\ fdpos = pos0
  /\ (pc = "done" /\ via = "job") =>
       LastEvents(6) = FreeEvents \o << <<"lseek", "SEEK_SET">>, <<"deflate", "">> >>
  /\ pc \in {"job_failed", "restore"} => nfallback = 0
  /\ (nfallback > 0 /\ request # "unset") => via = "job"

C2_Witness == pc = "fallback" /\ via = "job" /\ job = "failed" /\ rb > 0 /\ pos0 > 0

\* C3: after a failed job (in particular a failed submit) the bytes at the
\* destination, the checksum, the byte counters and the returned length are
\* those a direct call of the software deflate produces on the same input,
\* and the descriptor has advanced from its position before the call by
\* exactly the bytes the software deflate consumed.
C3_FailedJobEqualsDirectFallback ==
  (pc = "done" /\ via = "job") =>
    /\ Observed = DirectFallback
    /\ fdpos = pos0 + DirectFallback.bytes_in

C3_Witness ==
  /\ pc = "done" /\ via = "job"
  /\ nsubmit = 1 /\ job = "none"
  /\ rb > 0 /\ pos0 > 0

\* C4 (as claimed): when one of the four allocations returned null, no
\* successfully allocated buffer is still unreleased when the software
\* deflate is invoked.
C4_AllocFailureReleasesAll ==
  (via = "alloc" /\ pc \in {"fallback", "done"}) => \A b \in Bufs : buf[b] # "live"

\* C5: once all four buffers were allocated, no buffer is ever released
\* twice or accessed after its release, and on every exit (read error, failed
\* job then fallback, failed job then failed restore, success, write error
\* after a good job) each buffer has been released exactly once.
C5_ReleasedExactlyOnce ==
  /\ ~uaf
  /\ \A b \in Bufs : nfree[b] <= 1 /\ (buf[b] = "freed" <=> nfree[b] = 1)
  /\ (pc \in {"done", "abort"} /\ \A b \in Bufs : buf[b] \in {"live", "freed"}) =>
       \A b \in Bufs : nfree[b] = 1
  /\ (pc = "fallback" /\ via = "job") => \A b \in Bufs : nfree[b] = 1

C5_Witness ==
  /\ pc = "abort" /\ diag = "write error" /\ job = "completed"
  /\ \A b \in Bufs : nfree[b] = 1

\* C6: when a staging allocation returned null, no request or response was
\* created, nothing was submitted, the input was neither read nor seeked,
\* the next step is the software deflate, and it starts at the position the
\* descriptor had before the call.
C6_AllocFailureNoOffload ==
  (\E b \in Bufs : buf[b] = "null") =>
    /\ pc \in {"fallback", "done"}
    /\ via = "alloc"
    /\ request = "unset" /\ response = "unset" /\ nsubmit = 0 /\ args = <<>>
    /\ ~HasEvent(<<"read", "in_buffer">>) /\ ~HasEvent(<<"lseek", "SEEK_SET">>)
    /\ pc = "fallback" => fdpos = pos0
    /\ pc = "done" => fdpos = pos0 + DirectFallback.bytes_in

C6_Witness ==
  /\ pc = "fallback" /\ via = "alloc"
  /\ buf["in_buffer"] = "live" /\ buf["out_buffer"] = "null"

\* C7: after a successful job, once crc_compute has run, the session
\* checksum is the CRC-32 of the ifile_size bytes handed to the accelerator
\* (the accelerator having reported the CRC of the largest prefix that is a
\* whole number of 32-byte chunks); when those bytes are the whole file it
\* is the checksum the software deflate computes.
C7_HybridCrcEqualsSoftwareCrc ==
  (job = "completed" /\ pc \in {"free", "finish", "done"}) =>
    /\ getcrc(crc) = Crc32(SubSeq(in_buffer, 1, ifile_size))
    /\ (pos0 = 0 /\ rb = ifile_size) => crc = DirectFallback.crc

C7_Witness ==
  /\ pc = "done" /\ job = "completed"
  /\ ifile_size > 32 /\ ifile_size % 32 # 0
  /\ pos0 = 0 /\ rb = ifile_size

\* C8 (as claimed): for an input of threshold + 1000 bytes and a successful
\* job, crc_compute folds in a tail of 16 bytes that starts at offset 984.
C8_ScenarioTail16At984 ==
  (ifile_size = 17 + 1000 /\ job = "completed" /\ pc \in {"free", "finish", "done"}) =>
    crc_tail = [off |-> 984, len |-> 16]

\* C8 (amended): for an input of threshold + 1000 = 1017 bytes and a
\* successful job, the accelerator's CRC covers the first 992 bytes and
\* crc_compute folds in exactly the remaining 25 bytes, starting at offset 992.
C8_ScenarioTail25At992 ==
  (ifile_size = 17 + 1000 /\ job = "completed" /\ pc \in {"free", "finish", "done"}) =>
    /\ crc_tail = [off |-> 992, len |-> 25]
    /\ crc0 = Crc32(SubSeq(in_buffer, 1, 992))
    /\ crc = updcrc(setcrc(crc0), SubSeq(in_buffer, 993, 1017))

C8_Witness == ifile_size = 17 + 1000 /\ job = "completed" /\ pc = "done"

\* C9 (as claimed): after a successful offload the destination holds, after
\* the header, exactly compressed_size bytes from the start of the output
\* buffer, bytes_out equals the number of bytes persisted, and the returned
\* value is the number of bytes the write persisted.
C9_WrittenCountedReturned ==
  (pc = "done" /\ job = "completed") =>
    /\ dest = Header \o SubSeq(out_buffer, 1, gzip_info.compression_sz)
    /\ bytes_out = Len(dest)
    /\ ret = Len(dest) - Len(Header)

\* C10: a failed position restore ends the session with a diagnostic and
\* the software deflate is not invoked; the software deflate that follows a
\* restore attempt starts only when the restore succeeded, with the
\* descriptor at its position before the call.
C10_RestoreFailureIsFatal ==
  /\ (HasEvent(<<"lseek", "SEEK_SET">>) /\ pos = -1) =>
       /\ pc = "abort"
       /\ diag = "Cannot set input file descriptor position"
       /\ nfallback = 0
  /\ (HasEvent(<<"lseek", "SEEK_SET">>) /\ pc \in {"fallback", "done"}) =>
       /\ pos = pos0
       /\ pc = "fallback" => fdpos = pos0

C10_Witness ==
  /\ pc = "abort" /\ pos = -1
  /\ diag = "Cannot set input file descriptor position"
  /\ HasEvent(<<"lseek", "SEEK_SET">>)

\* C11: when the write after a successful job has failed, the session is
\* aborted with the write-error diagnostic: the software deflate is not
\* invoked, the descriptor is not seeked back (it stays behind the bytes
\* read), bytes_in is untouched and bytes_out holds only the header flush,
\* and the four buffers are already released at that point.
C11_WriteFailureIsFatal ==
  (job = "completed" /\ wb = -1) =>
    /\ pc \in {"crc", "free", "finish", "abort"}
    /\ nfallback = 0 /\ via = "none"
    /\ ~HasEvent(<<"lseek", "SEEK_SET">>) /\ fdpos = pos0 + rb
    /\ bytes_in = 0 /\ bytes_out = Len(Header) /\ ret = 0
    /\ pc = "abort" =>
         /\ diag = "write error"
         /\ \A b \in Bufs : buf[b] = "freed" /\ nfree[b] = 1

C11_Witness ==
  /\ pc = "abort" /\ job = "completed" /\ wb = -1 /\ rb > 0
  /\ diag = "write error"

DriverPcs == {"request_create", "bind", "response_create", "submit",
              "request_release", "wait", "response_release"}
UsesRequest == {"bind", "response_create", "submit", "request_release"}
UsesResponse == {"submit", "request_release", "wait", "response_release"}

\* C13: in fpga_task no handle is released twice, a handle is live at every
\* position where it is still going to be used or released, and once
\* fpga_task has returned (binding, response-creation, submit or wait
\* failure, or success) every handle that was created has been released
\* exactly once.
C13_HandlesReleasedExactlyOnce ==
  /\ nrel["request"] <= 1 /\ nrel["response"] <= 1
  /\ (request = "released") <=> (nrel["request"] = 1)
  /\ (response = "released") <=> (nrel["response"] = 1)
  /\ pc \in UsesRequest => request = "live"
  /\ pc \in UsesResponse => response = "live"
  /\ pc \notin DriverPcs =>
       /\ request \in {"unset", "null", "released"}
       /\ response \in {"unset", "released"}
  /\ (pc \notin DriverPcs /\ nsubmit > 0) => (request = "released" /\ response = "released")

C13_Witness ==
  /\ pc = "job_failed" /\ job = "failed"
  /\ nrel["request"] = 1 /\ nrel["response"] = 1

\* C14: the arguments bound so far are always slots 0, 1, 2, ... in that
\* order, arrays exactly at slots 1, 4, 7, 10 (the input, output, metadata
\* and checksum buffers) and scalars elsewhere, slot 13 carrying 1; a
\* response exists and a submit was made only when all 14 slots are bound;
\* after a binding failure no further slot is bound, no response is
\* created, nothing is submitted and fpga_task has returned failure.
C14_BindingOrderAndAbort ==
  /\ Len(args) <= 14
  /\ \A i \in 1..Len(args) :
        /\ args[i].slot = i - 1
        /\ args[i].kind = (IF (i - 1) \in {1, 4, 7, 10} THEN "array" ELSE "scalar")
        /\ (i - 1 = 1) => args[i].src = "in_buffer"
        /\ (i - 1 = 4) => args[i].src = "out_buffer"
        /\ (i - 1 = 7) => args[i].src = "gzip_info"
        /\ (i - 1 = 10) => args[i].src = "crc"
        /\ (i - 1 \in {0, 2}) => args[i].val = ifile_size
        /\ (i - 1 = 5) => args[i].val = out_size
        /\ (i - 1 = 13) => args[i].val = 1
  /\ pc = "bind" => (slot = Len(args) /\ slot < 14)
  /\ (response # "unset" \/ nsubmit > 0 \/ job # "none") => Len(args) = 14
  /\ (request = "released" /\ Len(args) < 14) =>
        /\ response = "unset" /\ nsubmit = 0 /\ job = "none"
        /\ pc \in {"job_failed", "restore", "fallback", "done", "abort"}

C14_Witness ==
  /\ pc = "job_failed" /\ Len(args) = 7 /\ request = "released"
  /\ response = "unset" /\ nsubmit = 0

\* C15: inaccel_submit is called at most once per call of deflate_inaccel;
\* a job is pending only between the submit and the end of the wait; when
\* fpga_task returns success its last four calls were submit, release of
\* the request, wait, release of the response, in that order; and the
\* software deflate never starts or runs while a job is pending.
C15_SingleJobNoOverlap ==
  /\ nsubmit <= 1
  /\ Cardinality({i \in 1..Len(trace) : trace[i] = <<"inaccel_submit", "">>}) <= 1
  /\ job = "pending" => pc \in {"request_release", "wait"}
  /\ (pc = "fallback" \/ nfallback > 0) => job \in {"none", "failed"}
  /\ pc = "job_ok" =>
       LastEvents(4) = << <<"inaccel_submit", "">>, <<"inaccel_request_release", "">>,
                          <<"inaccel_response_wait", "">>, <<"inaccel_response_release", "">> >>
  /\ job = "completed" => nfallback = 0

C15_Witness == pc = "job_ok" /\ nsubmit = 1 /\ job = "completed"

\* C16: when fpga_task has returned failure, errno is the value set by the
\* call that failed (a binding, the response creation, the submit or the
\* wait), whatever the release calls of the cleanup wrote into it.
C16_ErrnoPreserved ==
  pc = "job_failed" => (errno = failerr /\ failerr \in ErrCodes)

C16_Witness ==
  /\ pc = "job_failed" /\ job = "failed" /\ response = "released"
  /\ errno = failerr /\ failerr \in ErrCodes

\* C17: the lseek SEEK_CUR comes before every allocation, the read and
\* every accelerator call, and what it stores in pos is the position at the
\* call; when it fails the session is aborted before any allocation or
\* accelerator call; an lseek SEEK_SET is made only after fpga_task failed
\* (all four buffers allocated and released), never after a completed job
\* and never on the allocation-failure path.
C17_PositionCaptureAndRestore ==
  /\ \A j \in 1..Len(trace) :
        trace[j][1] \in {"inaccel_alloc", "read", "inaccel_request_create"} =>
          \E i \in 1..(j - 1) : trace[i] = <<"lseek", "SEEK_CUR">>
  /\ (HasEvent(<<"lseek", "SEEK_CUR">>) /\ pos # -1) => pos = pos0
  /\ (pos = -1 /\ ~HasEvent(<<"lseek", "SEEK_SET">>)) =>
        /\ pc = "abort"
        /\ diag = "Cannot resolve input file descriptor position"
        /\ \A b \in Bufs : buf[b] = "unset"
        /\ request = "unset" /\ nsubmit = 0 /\ nfallback = 0
        /\ ~HasEvent(<<"read", "in_buffer">>)
  /\ HasEvent(<<"lseek", "SEEK_SET">>) =>
        /\ job \in {"none", "failed"}
        /\ via \in {"none", "job"}
        /\ request \in {"null", "released"}
        /\ \A b \in Bufs : buf[b] = "freed"
  /\ (via = "alloc" \/ via = "gate" \/ job = "completed") => ~HasEvent(<<"lseek", "SEEK_SET">>)

C17_Witness ==
  /\ pc = "abort" /\ pos = -1
  /\ diag = "Cannot resolve input file descriptor position"

\* C18 (as claimed): for every input length a size_t can hold, the capacity
\* computed by calcMaxTempSize is max(length + 256, 16384), is at least
\* 16384 and is strictly greater than the length.
C18_CapacityCoversInput ==
  pc = "sized" =>
    /\ out_size = (IF ifile_size + 256 > 16384 THEN ifile_size + 256 ELSE 16384)
    /\ out_size >= 16384
    /\ out_size > ifile_size

\* C19 (as claimed): whenever fpga_task runs, the read has returned exactly
\* ifile_size bytes, the length that is submitted and checksummed; and after
\* a successful job bytes_in has grown by that same length.
C19_ReadIsComplete ==
  /\ pc \in DriverPcs => rb = ifile_size
  /\ (pc = "done" /\ job = "completed") => bytes_in = ifile_size

\* C20: the pending header is either still in outbuf with nothing at the
\* destination, or it is the first thing at the destination; when
\* fpga_task has returned success the header is already there, and the
\* accelerator's bytes written afterwards follow it directly; after a
\* failed attempt (allocation or job) the destination holds exactly the
\* bytes, in the order, that the software deflate alone would have put
\* there, counted once in bytes_out.
C20_HeaderFirstNoDuplicate ==
  /\ \/ (outbuf = Header /\ dest = <<>>)
     \/ (outbuf = <<>> /\ Len(dest) >= Len(Header)
                      /\ SubSeq(dest, 1, Len(Header)) = Header)
  /\ pc \in (DriverPcs \cup {"job_ok"}) => dest = Header
  /\ (job = "completed" /\ pc \in {"crc", "free", "finish", "done", "abort"}) =>
        dest = Header \o SubSeq(out_buffer, 1, IF wb = -1 THEN 0 ELSE wb)
  /\ (pc = "done" /\ via \in {"alloc", "job"}) =>
        /\ dest = DirectFallback.dest
        /\ bytes_out = Len(dest)

C20_Witness ==
  /\ pc = "done" /\ job = "completed" /\ wb = gzip_info.compression_sz
  /\ dest = Header \o out_buffer
====
